---- MODULE Spec2Model ----
(***************************************************************************)
(* A model of the Trails workbench code: the alignment object              *)
(* (design/alignment/alignment.py), the draft-alignment command            *)
(* (project/commands/draft_alignment_cmd.py), the point-groups factory     *)
(* (geomatics/point/point_groups.py) and the guide-line generator          *)
(* (geomatics/section/CreateGuideLines.py).                                *)
(*                                                                         *)
(* Conventions.  Coordinates are one-dimensional integers (positions along *)
(* the alignment).  A dict is a function; a list is a sequence.  An edge   *)
(* name 'Edge<n>' is the pair <<"Edge", n>>.  Python's None is -1 where a  *)
(* hash is expected, the string "None" where a name is expected, and the   *)
(* empty sequence where an object is expected (Some(x) is <<x>>).          *)
(***************************************************************************)
EXTENDS Integers, Sequences, FiniteSets, TLC

VARIABLES
    \* ---- Alignment (alignment.py): the model data and the edge index
    geometry,       \* self.model.data['geometry']: list of geometry entries
    wire,           \* self.Object.Shape.Edges, as the wire's list of points
    curve_edges,    \* self.curve_edges
    geo_result,     \* the last value returned by get_geometry
    \* ---- the alignment's dataset as objects on the heap
    heap,           \* address -> dict or list (key -> scalar or reference)
    data,           \* the caller's reference: what get_data(_copy) returned
    data_op,        \* the last operation on the dataset
    \* ---- the active document
    objects,        \* App.ActiveDocument's objects, in creation order
    ret,            \* the object the last factory call returned, or None
    out,            \* the last message printed
    doc_op,         \* the last factory call and its arguments
    \* ---- CreateGuideLines (CreateGuideLines.py)
    gl_data,        \* Alignment.Proxy.model.data, as the dialog reads it
    ui,             \* the dialog's fields (self.IPFui)
    Stations,       \* the candidate stations of the last run
    guide_lines,    \* the stations of the guide lines added to the group
    gl_status,      \* how the last run of CreateGuideLines ended
    \* ---- DraftAlignmentCmd (draft_alignment_cmd.py) and the GUI around it
    doc_open,       \* App.ActiveDocument is not None
    selection,      \* Gui.Selection.getSelection(), as object names
    cursor,         \* ActiveView.getObjectInfo(cursor position), or None
    is_activated,   \* self.is_activated
    alignment,      \* self.alignment
    alignment_draft,\* self.alignment_draft (its Name)
    temp_group,     \* self.temp_group (its Name)
    edges,          \* self.edges
    curve_hash,     \* self.curve_hash
    control_geometry, \* hash -> Visibility of the control wires made for it
    unselectable,   \* the objects whose ViewObject.Selectable is False
    active_result,  \* what the last call of IsActive returned
    cmd_op          \* the last handler of the command that ran

\* None, where a curve hash is expected
None == -1

\* None, where an object is expected, and an object that is not None
Nothing == <<>>
Some(x) == <<x>>

geoVars == <<geometry, wire, curve_edges, geo_result>>

dataVars == <<heap, data, data_op>>

docVars == <<objects, ret, out, doc_op>>

glVars == <<gl_data, ui, Stations, guide_lines, gl_status>>

cmdVars == <<doc_open, selection, cursor, is_activated, alignment,
             alignment_draft, temp_group, edges, curve_hash,
             control_geometry, unselectable, active_result, cmd_op>>

vars == <<geoVars, dataVars, docVars, glVars, cmdVars>>

\* the frame of the actions on the geometry, on the dataset, on the
\* document, on the guide-line dialog
OnlyGeo == UNCHANGED <<dataVars, docVars, glVars, cmdVars>>
OnlyData == UNCHANGED <<geoVars, docVars, glVars, cmdVars>>
OnlyDoc == UNCHANGED <<geoVars, dataVars, glVars, cmdVars>>
OnlyGL == UNCHANGED <<geoVars, dataVars, docVars, cmdVars>>

----------------------------------------------------------------------------
(* Bounds of the model *)

\* largest coordinate of a point
MaxPt == 3
\* largest number of entries of model.data['geometry']
MaxGeo == 2
\* largest scalar stored in the dataset
MaxVal == 1
\* largest number of objects of the document
MaxObjects == 4
\* largest increment typed into the guide-line dialog
MaxInc == 3

----------------------------------------------------------------------------
(* alignment.py: Alignment *)

Points == 0..MaxPt

Abs(x) == IF x < 0 THEN -x ELSE x

Min(S) == CHOOSE x \in S : \A y \in S : x <= y

\* support.within_tolerance's tolerance, in coordinate units
Tolerance == 2

\* support.within_tolerance(lhs, rhs): the two values differ by less than
\* the tolerance
within_tolerance(lhs, rhs) == Abs(lhs - rhs) < Tolerance

\* curve['Hash']: "a unique hash based on the curve start and end points"
CurveHash(start, end) == start * (2 * MaxPt + 1) + end + 1

GeoTypes == {"Line", "Curve", "Spiral"}

\* the entries model.data['geometry'] may hold
GeoEntries ==
    { [Type |-> t, Hash |-> CurveHash(s, e), Start |-> s, End |-> e] :
        t \in GeoTypes, s \in Points, e \in Points }

\* self.Object.Shape.Edges: edge _i of the wire joins point _i and the next
Edges(w) == [i \in 1..(Len(w) - 1) |-> <<w[i], w[i + 1]>>]

\* 'Edge' + str(_i + 1), where i = _i + 1 is the edge's 1-based position
EdgeName(i) == <<"Edge", i>>

\* edge_dict[key] = edge
DictPut(d, key, val) ==
    [k \in (DOMAIN d) \cup {key} |-> IF k = key THEN val ELSE d[k]]

EmptyDict == [k \in {} |-> 0]

RECURSIVE EdgeScanNoBreak(_, _, _, _)
\* the edge loop with its break left out
EdgeScanNoBreak(curve, wire_edges, i, edge_dict) ==
    IF i > Len(wire_edges) THEN edge_dict
    ELSE IF DOMAIN edge_dict = {}
            /\ ~within_tolerance(curve.Start, wire_edges[i][1])
         THEN EdgeScanNoBreak(curve, wire_edges, i + 1, edge_dict)
         ELSE EdgeScanNoBreak(curve, wire_edges, i + 1,
                              DictPut(edge_dict, EdgeName(i), wire_edges[i]))

RECURSIVE EdgeScan(_, _, _, _)
\* the inner loop of build_curve_edge_dict, from edge i on
EdgeScan(curve, wire_edges, i, edge_dict) ==
    IF i > Len(wire_edges) THEN edge_dict
    ELSE IF DOMAIN edge_dict = {}
            /\ ~within_tolerance(curve.Start, wire_edges[i][1])
         THEN EdgeScan(curve, wire_edges, i + 1, edge_dict)
         ELSE LET d == DictPut(edge_dict, EdgeName(i), wire_edges[i])
              IN  IF within_tolerance(curve.End, wire_edges[i][2])
                  THEN d
                  ELSE EdgeScan(curve, wire_edges, i + 1, d)

RECURSIVE CurveScan(_, _, _, _)
\* the outer loop of build_curve_edge_dict, from curve k on
CurveScan(curves, wire_edges, k, curve_dict) ==
    IF k > Len(curves) THEN curve_dict
    ELSE IF curves[k].Type = "Line"
         THEN CurveScan(curves, wire_edges, k + 1, curve_dict)
         ELSE CurveScan(curves, wire_edges, k + 1,
                        DictPut(curve_dict, curves[k].Hash,
                                EdgeScan(curves[k], wire_edges, 1, EmptyDict)))

\* Alignment.build_curve_edge_dict
BuildCurveEdgeDict ==
    /\ curve_edges' = Some(CurveScan(geometry, Edges(wire), 1, EmptyDict))
    /\ UNCHANGED <<geometry, wire, geo_result>>
    /\ OnlyGeo

RECURSIVE FirstMatch(_, _, _)
\* the for loop of get_geometry, from entry k on
FirstMatch(geo, hash_arg, k) ==
    IF k > Len(geo) THEN [kind |-> "None", value |-> <<>>]
    ELSE IF geo[k].Hash = hash_arg THEN [kind |-> "entry", value |-> <<geo[k]>>]
         ELSE FirstMatch(geo, hash_arg, k + 1)

\* "not curve_hash": None and 0 are false
Falsy(v) == v = None \/ v = 0

\* Alignment.get_geometry
get_geometry(geo, hash_arg) ==
    IF Falsy(hash_arg)
    THEN [kind |-> "list", value |-> geo]
    ELSE FirstMatch(geo, hash_arg, 1)

\* the hashes a caller may pass
HashArgs == {None} \cup (0..(CurveHash(MaxPt, MaxPt) + 1))

GetGeometry ==
    /\ \E h \in HashArgs :
        geo_result' = Some([arg |-> h, ret |-> get_geometry(geometry, h)])
    /\ UNCHANGED <<geometry, wire, curve_edges>>
    /\ OnlyGeo

\* the sequences over S of length 1..n
SeqsUpTo(S, n) == UNION { [1..k -> S] : k \in 1..n }

\* the wires: at least one edge, points in increasing position
Wires ==
    { w \in SeqsUpTo(Points, MaxPt + 1) :
        /\ Len(w) >= 2
        /\ \A i \in 1..(Len(w) - 1) : w[i] < w[i + 1] }

----------------------------------------------------------------------------
(* alignment.py: the dataset self.model.data and its copies *)

\* a scalar and a reference stored under a key
Scalar(v) == [ref |-> FALSE, v |-> v]
Ref(a) == [ref |-> TRUE, v |-> a]

\* the address of self.model.data
model_data == 1

\* the dataset's layout: {'meta': {...}, 'geometry': [...], 'station': ...}
\* with n geometry entries, every scalar being v
Dataset(n, v) ==
    [a \in 1..(3 + n) |->
        IF a = 1 THEN [k \in {"meta", "geometry", "station"} |->
                        IF k = "meta" THEN Ref(2)
                        ELSE IF k = "geometry" THEN Ref(3) ELSE Scalar(v)]
        ELSE IF a = 2 THEN [k \in {"StartStation", "Length"} |-> Scalar(v)]
        ELSE IF a = 3 THEN [k \in {ToString(i) : i \in 0..(n - 1)} |->
                             Ref(4 + CHOOSE i \in 0..(n - 1) : ToString(i) = k)]
        ELSE [k \in {"Hash"} |-> Scalar(v)]]

\* the addresses referenced by the node at a
Children(h, a) == {h[a][k].v : k \in {k \in DOMAIN h[a] : h[a][k].ref}}

RECURSIVE ReachFrom(_, _, _)
\* the addresses reachable from the set front, seen included
ReachFrom(h, front, seen) ==
    IF front \subseteq seen THEN seen
    ELSE ReachFrom(h, UNION {Children(h, a) : a \in front \ seen},
                   seen \cup front)

Reach(h, root) == ReachFrom(h, {root}, {})

\* the objects still referenced: by the model, or by the caller
Live(h, d) ==
    Reach(h, model_data) \cup (IF d = Nothing THEN {} ELSE Reach(h, d[1]))

\* the heap once the objects nothing references are freed
Collect(h, d) == [a \in Live(h, d) |-> h[a]]

\* where a copy of the model's objects is allocated: the first free block
Base(h) ==
    LET n == Cardinality(Reach(h, model_data))
    IN  IF (model_data + n) \in DOMAIN h THEN 2 * n ELSE n

\* copy.copy(x): a new top-level object holding the same references
ShallowCopy(h, root, base) ==
    [a \in (DOMAIN h) \cup {root + base} |->
        IF a \in DOMAIN h THEN h[a] ELSE h[root]]

\* copy.deepcopy(x): a new object for every object reachable from x
DeepCopy(h, root, base) ==
    [a \in (DOMAIN h) \cup {r + base : r \in Reach(h, root)} |->
        IF a \in DOMAIN h THEN h[a]
        ELSE [k \in DOMAIN h[a - base] |->
                IF h[a - base][k].ref
                THEN Ref(h[a - base][k].v + base)
                ELSE h[a - base][k]]]

\* Alignment.get_data: the model's own dataset
GetData ==
    /\ data' = Some(model_data)
    /\ heap' = Collect(heap, data')
    /\ data_op' = [op |-> "get_data", node |-> 0, key |-> "", val |-> 0]
    /\ OnlyData

\* Alignment.get_data_copy: deepcopy(self.model.data)
GetDataCopy ==
    LET base == Base(heap)
    IN  /\ data' = Some(model_data + base)
        /\ heap' = Collect(DeepCopy(heap, model_data, base), data')
        /\ data_op' =
            [op |-> "get_data_copy", node |-> 0, key |-> "", val |-> 0]
        /\ OnlyData

\* the caller mutates what it was given: x[key] = val for an object x
\* reachable from the returned value, at any depth
SetItem ==
    /\ data # Nothing
    /\ \E a \in Reach(heap, data[1]) :
       \E k \in {k \in DOMAIN heap[a] : ~heap[a][k].ref} :
       \E v \in 0..MaxVal :
        /\ heap' = [heap EXCEPT ![a][k] = Scalar(v)]
        /\ data_op' = [op |-> "setitem", node |-> a, key |-> k, val |-> v]
    /\ UNCHANGED data
    /\ OnlyData

----------------------------------------------------------------------------
(* The active document, point_groups.py and alignment.create *)

\* an object name: the name asked for and the number the document appended
\* to make it unique ('PointGroups', 'PointGroups001', ...)
ObjName(base, n) == [base |-> base, n |-> n]

Names(objs) == {objs[i].Name : i \in 1..Len(objs)}

\* App.ActiveDocument.getObject(name): the object of that name, or None
getObject(objs, base) ==
    LET hit == {i \in 1..Len(objs) : objs[i].Name = ObjName(base, 0)}
    IN  IF hit = {} THEN Nothing ELSE Some(objs[CHOOSE i \in hit : TRUE])

\* the name addObject gives: the one asked for, made unique in the document
UniqueName(objs, base) ==
    ObjName(base, Min({n \in 0..Len(objs) : ObjName(base, n) \notin Names(objs)}))

\* obj.Proxy: an instance of the class cls whose attribute Type is type
ProxyOf(cls, type) == Some([Class |-> cls, Type |-> type])

\* App.ActiveDocument.addObject(type, name), then the proxy (None for an
\* object without one) and the parent group the factory gives the object
NewObject(objs, type, base, proxy, parent) ==
    [Name |-> UniqueName(objs, base), TypeId |-> type,
     Proxy |-> proxy, Parent |-> parent]

NoCall == [op |-> "none", geometry |-> "", object_name |-> "", no_visual |-> FALSE]

\* point_groups.create
pg_create(objs) ==
    Append(objs, NewObject(objs, "App::DocumentObjectGroupPython",
                           "PointGroups",
                           ProxyOf("PointGroups", "Trails::PointGroups"), ""))

\* point_groups.get with the lookup of the existing object left out
pg_get_always_create(objs) == pg_create(objs)

\* point_groups.get: the document after the call (the object returned is
\* the last one of a document that grew, else the one found)
pg_get(objs) ==
    IF getObject(objs, "PointGroups") # Nothing THEN objs ELSE pg_create(objs)

PointGroupsGet ==
    /\ Len(pg_get(objects)) <= MaxObjects
    /\ objects' = pg_get(objects)
    /\ ret' = IF objects' = objects
              THEN getObject(objects, "PointGroups")
              ELSE Some(objects'[Len(objects')])
    /\ doc_op' = [NoCall EXCEPT !.op = "point_groups.get"]
    /\ UNCHANGED out
    /\ OnlyDoc

\* alignment_group.create: the 'Alignments' group, made when there is none
alignment_group_create(objs) ==
    IF getObject(objs, "Alignments") # Nothing THEN objs
    ELSE Append(objs, NewObject(objs, "App::DocumentObjectGroupPython",
                                "Alignments",
                                ProxyOf("AlignmentGroup", "AlignmentGroup"),
                                ""))

_CLASS_NAME == "Alignment"
_TYPE == "Part::Part2DObjectPython"

\* "not geometry" tested as "geometry is None"
GeometryIsNone(geo_arg) == geo_arg = "None"

\* "not geometry": None and the empty container are false
GeometryMissing(geo_arg) == geo_arg \in {"None", "empty"}

\* alignment.create(geometry, object_name, no_visual): the document after it
alignment_create(objs, geo_arg, object_name, no_visual) ==
    IF GeometryMissing(geo_arg) THEN objs
    ELSE LET _name == IF object_name # "" THEN object_name ELSE _CLASS_NAME
         IN  IF no_visual
             THEN Append(objs, NewObject(objs, _TYPE, _name,
                                         ProxyOf("Alignment", _CLASS_NAME), ""))
             ELSE LET withParent == alignment_group_create(objs)
                  IN  Append(withParent,
                             NewObject(withParent, _TYPE, _name,
                                       ProxyOf("Alignment", _CLASS_NAME),
                                       "Alignments"))

AlignmentCreate ==
    /\ \E geo_arg \in {"None", "empty", "curves"} :
       \E object_name \in {"", "Alignments", "PointGroups"} :
       \E no_visual \in BOOLEAN :
        /\ Len(alignment_create(objects, geo_arg, object_name, no_visual))
                <= MaxObjects
        /\ objects' = alignment_create(objects, geo_arg, object_name, no_visual)
        /\ ret' = IF GeometryMissing(geo_arg) THEN Nothing
                  ELSE Some(objects'[Len(objects')])
        /\ out' = IF GeometryMissing(geo_arg)
                  THEN "No curve geometry supplied" ELSE out
        /\ doc_op' = [op |-> "alignment.create", geometry |-> geo_arg,
                      object_name |-> object_name, no_visual |-> no_visual]
    /\ OnlyDoc

----------------------------------------------------------------------------
(* CreateGuideLines.py *)

\* Stations are fixed-point numbers: Scale units make one station, so the
\* fourth decimal is kept.  A length is held as Length/1000, in units.
Scale == 10 * 1000

\* round(x) of a float: to the nearest whole number, a tie to the even one
Round(u) ==
    LET q == u \div Scale
        r == u % Scale
    IN  IF 2 * r < Scale THEN q
        ELSE IF 2 * r > Scale THEN q + 1
        ELSE IF q % 2 = 0 THEN q ELSE q + 1

\* round(x, 3): to the nearest multiple of 0.001, in units
Round3(u) ==
    LET step == Scale \div 1000
        q == u \div step
        r == u % step
    IN  IF 2 * r < step THEN q * step
        ELSE IF 2 * r > step THEN (q + 1) * step
        ELSE IF q % 2 = 0 THEN q * step ELSE (q + 1) * step

\* getAlignmentInfos: (Alignment, Start, End); no alignment gives 0.0, 0.0
AlignmentEnd ==
    IF ui.AlignmentCB < 0 THEN 0
    ELSE gl_data.meta.StartStation + gl_data.meta.Length

\* Geo.get('StartStation') + Geo.get('Length')/1000
EndStation(Geo) == Geo.StartStation + Geo.Length

\* range(round(float(StartStation)), round(float(EndStation)))
StationRange(Geo) == Round(Geo.StartStation)..(Round(EndStation(Geo)) - 1)

\* the increment a segment of the type is stepped by, the curve/spiral
\* increment taken for every type
IncrementAlwaysCurve(type, fields) == fields.CSIncrementLE

\* the increment a segment of the type is stepped by: int(TangentIncrement)
\* for a Line, int(CurveSpiralIncrement) for a Curve or a Spiral
Increment(type, fields) ==
    IF type = "Line" THEN fields.TIncrementLE ELSE fields.CSIncrementLE

\* i % int(Increment) raises ZeroDivisionError: the segment has a station
\* to test and the increment is 0
Raises(Geo, fields) ==
    /\ Geo.Type \in {"Line", "Curve", "Spiral"}
    /\ StationRange(Geo) # {}
    /\ Increment(Geo.Type, fields) = 0

\* the set S as an ascending list
RECURSIVE Ascending(_)
Ascending(S) ==
    IF S = {} THEN <<>> ELSE <<Min(S)>> \o Ascending(S \ {Min(S)})

\* what the loop body appends to Stations for one segment
SegmentStations(Geo, fields) ==
    (IF Geo.StartStation # 0 /\ fields.HorGeoPointsChB
     THEN <<Geo.StartStation>> ELSE <<>>)
    \o
    (IF Geo.Type \in {"Line", "Curve", "Spiral"}
     THEN Ascending({i * Scale : i \in
            {i \in StationRange(Geo) : i % Increment(Geo.Type, fields) = 0}})
     ELSE <<>>)

RECURSIVE GeometryStations(_, _, _)
\* the for loop over Geometry, from segment k on
GeometryStations(Geometry, fields, k) ==
    IF k > Len(Geometry) THEN <<>>
    ELSE SegmentStations(Geometry[k], fields)
            \o GeometryStations(Geometry, fields, k + 1)

\* the station test with the lower limit left out
UnderLastStation(fields, Station) == Station <= fields.EndStationLE

\* float(FirstStation) <= Station <= float(LastStation)
InLimits(fields, Station) ==
    fields.StartStationLE <= Station /\ Station <= fields.EndStationLE

RECURSIVE Insert(_, _)
Insert(sorted, x) ==
    IF sorted = <<>> THEN <<x>>
    ELSE IF x <= Head(sorted) THEN <<x>> \o sorted
         ELSE <<Head(sorted)>> \o Insert(Tail(sorted), x)

RECURSIVE Sort(_)
\* Result.sort()
Sort(list) ==
    IF list = <<>> THEN <<>> ELSE Insert(Sort(Tail(list)), Head(list))

\* the stations of the list that fall in the limits
Result(fields, list) == SelectSeq(list, LAMBDA x : InLimits(fields, x))

\* CreateGuideLines.CreateGuideLines
CreateGuideLines ==
    /\ gl_status = "idle"
    /\ IF ui.GLGroupCB < 0
       THEN /\ gl_status' = "no guide line group"
            /\ UNCHANGED <<Stations, guide_lines>>
       ELSE IF ui.AlignmentCB < 0
       THEN /\ gl_status' = "no alignment"
            /\ UNCHANGED <<Stations, guide_lines>>
       ELSE IF \E k \in 1..Len(gl_data.geometry) :
                    Raises(gl_data.geometry[k], ui)
       THEN /\ gl_status' = "ZeroDivisionError"
            /\ UNCHANGED <<Stations, guide_lines>>
       ELSE /\ Stations' = GeometryStations(gl_data.geometry, ui, 1)
                            \o <<Round3(AlignmentEnd)>>
            /\ guide_lines' = guide_lines \o Sort(Result(ui, Stations'))
            /\ gl_status' = "done"
    /\ UNCHANGED <<gl_data, ui>>
    /\ OnlyGL

\* the stations the user may type into the limit fields
TypedStations == {Scale, 2 * Scale}

\* the user edits the station limits (StartStationLE, EndStationLE)
EditStations ==
    /\ gl_status = "idle"
    /\ \E first \in TypedStations : \E last \in TypedStations :
        /\ first <= last
        /\ ui' = [ui EXCEPT !.StartStationLE = first, !.EndStationLE = last]
    /\ UNCHANGED <<gl_data, Stations, guide_lines, gl_status>>
    /\ OnlyGL

\* the lengths of a segment, as Length/1000: 1.5 and 2.5004 stations
SegmentLengths == {Scale + Scale \div 2, 2 * Scale + Scale \div 2 + 4}

\* the alignment's start stations: 0, 0.5 and 1
StartStations == {0, Scale \div 2, Scale}

RECURSIVE SumLengths(_, _)
SumLengths(segs, k) ==
    IF k = 0 THEN 0 ELSE segs[k].Length + SumLengths(segs, k - 1)

\* the dataset of an alignment that starts at station start and is made of
\* the segments segs, each beginning where the one before it ends
AlignmentData(start, segs) ==
    [meta |-> [StartStation |-> start, Length |-> SumLengths(segs, Len(segs))],
     geometry |-> [k \in 1..Len(segs) |->
        [Type |-> segs[k].Type,
         StartStation |-> start + SumLengths(segs, k - 1),
         Length |-> segs[k].Length]]]

----------------------------------------------------------------------------
(* draft_alignment_cmd.py: DraftAlignmentCmd, and the GUI that drives it *)

\* the object of the document with the given name
ObjectNamed(objs, name) == objs[CHOOSE i \in 1..Len(objs) : objs[i].Name = name]

\* Alignment.__getstate__ / __setstate__: the Type a saved alignment comes
\* back with is the Type it was saved with: _CLASS_NAME for an alignment
\* made by Alignment.__init__, 'HorizontalAlignment' for one of a file
\* written when that was the Type
SavedTypes == {_CLASS_NAME, "HorizontalAlignment"}

\* the Type IsActive compares with
ExpectedType == "HorizontalAlignment"

\* a document is opened: its objects are restored, the alignment by
\* __setstate__(state) and onDocumentRestored (build_curve_edge_dict)
OpenDocument ==
    /\ ~doc_open
    /\ doc_open' = TRUE
    /\ \E state \in SavedTypes :
        objects' =
            LET grp == alignment_group_create(<<>>)
                alg == Append(grp, NewObject(grp, _TYPE, _CLASS_NAME,
                                             ProxyOf("Alignment", state),
                                             "Alignments"))
                pgs == pg_create(alg)
            IN  Append(pgs, NewObject(pgs, "App::DocumentObjectGroup",
                                      "GuideLines", Nothing, ""))
    /\ curve_edges' = Some(CurveScan(geometry, Edges(wire), 1, EmptyDict))
    /\ cmd_op' = "open"
    /\ UNCHANGED <<geometry, wire, geo_result, ret, out, doc_op>>
    /\ UNCHANGED <<selection, cursor, is_activated, alignment, alignment_draft,
                   temp_group, edges, curve_hash, control_geometry,
                   unselectable, active_result>>
    /\ UNCHANGED <<dataVars, glVars>>

\* the user selects nothing, or one object of the document
Select ==
    /\ doc_open
    /\ ~is_activated
    /\ \E sel \in {<<>>} \cup {<<n>> : n \in Names(objects)} :
        selection' = sel
    /\ cmd_op' = "select"
    /\ UNCHANGED <<doc_open, cursor, is_activated, alignment, alignment_draft,
                   temp_group, edges, curve_hash, control_geometry,
                   unselectable, active_result>>
    /\ UNCHANGED <<geoVars, dataVars, docVars, glVars>>

\* DraftAlignmentCmd.IsActive: what it returns, "AttributeError" when
\* selected[0] has no Proxy
is_active ==
    IF is_activated THEN "False"
    ELSE IF ~doc_open THEN "False"
    ELSE IF selection = <<>> THEN "False"
    ELSE LET first == ObjectNamed(objects, selection[1])
         IN  IF first.Proxy = Nothing THEN "AttributeError"
             ELSE IF ~(first.Proxy[1].Type = ExpectedType) THEN "False"
             ELSE "True"

\* DraftAlignmentCmd.IsActive
IsActive ==
    /\ active_result' = is_active
    /\ alignment' = IF is_active = "True"
                    THEN Some(ObjectNamed(objects, selection[1]))
                    ELSE alignment
    /\ cmd_op' = "IsActive"
    /\ UNCHANGED <<doc_open, selection, cursor, is_activated, alignment_draft,
                   temp_group, edges, curve_hash, control_geometry,
                   unselectable>>
    /\ UNCHANGED <<geoVars, dataVars, docVars, glVars>>

\* DraftAlignmentCmd.Activated, which the GUI calls when IsActive has just
\* returned True
Activated ==
    /\ is_active = "True"
    /\ is_activated' = TRUE
    /\ active_result' = "True"
    /\ alignment' = Some(ObjectNamed(objects, selection[1]))
    /\ LET group == NewObject(objects, "App::DocumentObjectGroup", "Temp",
                              Nothing, "")
           withGroup == Append(objects, group)
           draft == NewObject(withGroup, _TYPE, "uuid",
                              ProxyOf("Wire", "Wire"), "Temp")
       IN  /\ objects' = Append(withGroup, draft)
           /\ temp_group' = Some(group.Name)
           /\ alignment_draft' = Some(draft.Name)
           /\ unselectable' = Names(objects)
    /\ edges' = curve_edges
    /\ cmd_op' = "Activated"
    /\ UNCHANGED <<doc_open, selection, cursor, curve_hash, control_geometry>>
    /\ UNCHANGED <<ret, out, doc_op>>
    /\ UNCHANGED <<geoVars, dataVars, glVars>>

\* the key of self.edges the for loop reaches first: the hash of the first
\* curve of the geometry among the set keys
FirstKey(keys) ==
    LET pos(h) == Min({k \in 1..Len(geometry) : geometry[k].Hash = h})
    IN  CHOOSE h \in keys : \A g \in keys : pos(h) <= pos(g)

\* the keys of self.edges that select_curve_edges does not skip and whose
\* edges hold edge_name
EdgeOwners(dict, edge_name) ==
    {k \in DOMAIN dict :
        /\ Cardinality(DOMAIN dict[k]) # 1
        /\ edge_name \in DOMAIN dict[k]}

\* DraftAlignmentCmd.select_curve_edges: the hash returned, or None
select_curve_edges(edge_name) ==
    IF EdgeOwners(edges[1], edge_name) = {} THEN None
    ELSE FirstKey(EdgeOwners(edges[1], edge_name))

\* the components of the draft a cursor may be over
Components == {EdgeName(n) : n \in 1..(Len(wire) - 1)} \cup {<<"Vertex", 1>>}

\* what ActiveView.getObjectInfo may return: None, or an object of the
\* document and one of its components
CursorInfos ==
    {Nothing} \cup
    {Some([Object |-> n, Component |-> c]) :
        n \in {alignment_draft[1], alignment[1].Name, ObjName("GuideLines", 0)},
        c \in Components}

\* DraftAlignmentCmd.action on a SoLocation2Event (a mouse move)
MouseMove ==
    /\ is_activated
    /\ \E info \in CursorInfos :
        LET onDraft == info # Nothing /\ info[1].Object = alignment_draft[1]
            hash == IF onDraft THEN select_curve_edges(info[1].Component)
                    ELSE None
        IN  /\ cursor' = info
            /\ IF ~Falsy(hash)
               THEN /\ selection' = <<alignment_draft[1]>>
                    /\ curve_hash' = hash
                    /\ control_geometry' =
                        IF curve_hash = hash THEN control_geometry
                        ELSE IF hash \in DOMAIN control_geometry
                        THEN [control_geometry EXCEPT ![hash] = TRUE]
                        ELSE IF get_geometry(geometry, hash).kind = "None"
                        THEN control_geometry
                        ELSE DictPut(control_geometry, hash, TRUE)
               ELSE /\ selection' = <<>>
                    /\ curve_hash' = IF ~Falsy(curve_hash) THEN None
                                     ELSE curve_hash
                    /\ control_geometry' =
                        IF ~Falsy(curve_hash)
                           /\ curve_hash \in DOMAIN control_geometry
                        THEN [control_geometry EXCEPT ![curve_hash] = FALSE]
                        ELSE control_geometry
    /\ cmd_op' = "SoLocation2Event"
    /\ UNCHANGED <<doc_open, is_activated, alignment, alignment_draft,
                   temp_group, edges, unselectable, active_result>>
    /\ UNCHANGED <<geoVars, dataVars, docVars, glVars>>

\* DraftAlignmentCmd.action on the ESCAPE key: finish()
Escape ==
    /\ is_activated
    /\ objects' = SelectSeq(objects, LAMBDA o :
                    o.Name # temp_group[1] /\ o.Parent # temp_group[1].base)
    /\ selection' = SelectSeq(selection, LAMBDA n : n # alignment_draft[1])
    /\ control_geometry' = EmptyDict
    /\ unselectable' = {}
    /\ is_activated' = FALSE
    /\ cursor' = Nothing
    /\ cmd_op' = "finish"
    /\ UNCHANGED <<doc_open, alignment, alignment_draft, temp_group, edges,
                   curve_hash, active_result>>
    /\ UNCHANGED <<ret, out, doc_op>>
    /\ UNCHANGED <<geoVars, dataVars, glVars>>

\* the points of the wire of the alignment the command works on
DraftWire == [i \in 1..(MaxPt + 1) |-> 2 * (i - 1)]

\* the geometries that wire is drawn from: segments that follow each other
\* from the wire's first point to its last, each from one point of the wire
\* to a later one
DraftGeometries ==
    LET pts == {DraftWire[i] : i \in 1..Len(DraftWire)}
        entries == { [Type |-> t, Hash |-> CurveHash(a, b),
                      Start |-> a, End |-> b] :
                        t \in GeoTypes, a \in pts, b \in pts }
    IN  { g \in SeqsUpTo({e \in entries : e.Start < e.End}, MaxGeo) :
            /\ g[1].Start = DraftWire[1]
            /\ g[Len(g)].End = DraftWire[Len(DraftWire)]
            /\ \A k \in 1..(Len(g) - 1) : g[k].End = g[k + 1].Start }

----------------------------------------------------------------------------
(* Initial states and specifications *)

\* the alignment when the run is not about its geometry
IdleGeo ==
    /\ geometry = <<[Type |-> "Line", Hash |-> CurveHash(0, 1),
                     Start |-> 0, End |-> 1]>>
    /\ wire = <<0, 1>>
    /\ curve_edges = Nothing
    /\ geo_result = Nothing

\* the dataset when the run is not about it
IdleData ==
    /\ heap = Dataset(1, 0)
    /\ data = Nothing
    /\ data_op = [op |-> "init", node |-> 0, key |-> "", val |-> 0]

\* the guide-line dialog when the run is not about it
IdleGL ==
    /\ gl_data = AlignmentData(0, <<[Type |-> "Line", Length |-> Scale]>>)
    /\ ui = [AlignmentCB |-> -1, GLGroupCB |-> -1, TIncrementLE |-> 1,
             CSIncrementLE |-> 1, HorGeoPointsChB |-> FALSE,
             StartStationLE |-> 0, EndStationLE |-> 0]
    /\ Stations = <<>>
    /\ guide_lines = <<>>
    /\ gl_status = "idle"

\* the command as DraftAlignmentCmd.__init__ leaves it, no document open
InitCmd ==
    /\ doc_open = FALSE
    /\ selection = <<>>
    /\ cursor = Nothing
    /\ is_activated = FALSE
    /\ alignment = Nothing
    /\ alignment_draft = Nothing
    /\ temp_group = Nothing
    /\ edges = Nothing
    /\ curve_hash = None
    /\ control_geometry = EmptyDict
    /\ unselectable = {}
    /\ active_result = "none"
    /\ cmd_op = "none"

\* a new, empty document
InitDoc ==
    /\ objects = <<>>
    /\ ret = Nothing
    /\ out = ""
    /\ doc_op = NoCall

GeometryInputs == SeqsUpTo({g \in GeoEntries : g.Start < g.End}, MaxGeo)

\* ---- the edge index: build_curve_edge_dict over every geometry and wire
InitEdges ==
    /\ geometry \in GeometryInputs
    /\ wire \in Wires
    /\ curve_edges = Nothing
    /\ geo_result = Nothing
    /\ IdleData
    /\ InitDoc
    /\ IdleGL
    /\ InitCmd

NextEdges == BuildCurveEdgeDict

SpecEdges == InitEdges /\ [][NextEdges]_vars

\* ---- the lookup: get_geometry over every geometry and hash
InitLookup ==
    /\ geometry \in GeometryInputs
    /\ wire = <<0, 1>>
    /\ curve_edges = Nothing
    /\ geo_result = Nothing
    /\ IdleData
    /\ InitDoc
    /\ IdleGL
    /\ InitCmd

NextLookup == GetGeometry

SpecLookup == InitLookup /\ [][NextLookup]_vars

\* ---- the dataset: get_data, get_data_copy and the caller's assignments
InitData ==
    /\ \E n \in 1..MaxGeo : \E v \in 0..MaxVal : heap = Dataset(n, v)
    /\ data = Nothing
    /\ data_op = [op |-> "init", node |-> 0, key |-> "", val |-> 0]
    /\ IdleGeo
    /\ InitDoc
    /\ IdleGL
    /\ InitCmd

NextData == GetData \/ GetDataCopy \/ SetItem

SpecData == InitData /\ [][NextData]_vars

\* ---- the document: the factories point_groups.get and alignment.create
InitFactories == InitDoc /\ IdleGeo /\ IdleData /\ IdleGL /\ InitCmd

NextDoc == PointGroupsGet \/ AlignmentCreate

SpecDoc == InitFactories /\ [][NextDoc]_vars

\* ---- the guide lines: one run of CreateGuideLines on the dialog as the
\* user left it, the station limits being those ListGuideLinesGroups wrote
\* (the alignment's start and end, to three decimals) or typed ones
InitGL ==
    /\ \E start \in StartStations :
       \E segs \in SeqsUpTo([Type : GeoTypes, Length : SegmentLengths], MaxGeo) :
        gl_data = AlignmentData(start, segs)
    /\ \E a \in {-1, 0} : \E g \in {-1, 0} :
       \E t \in 0..MaxInc : \E cs \in 0..MaxInc : \E h \in BOOLEAN :
        ui = [AlignmentCB |-> a, GLGroupCB |-> g, TIncrementLE |-> t,
              CSIncrementLE |-> cs, HorGeoPointsChB |-> h,
              StartStationLE |->
                Round3(IF a < 0 THEN 0 ELSE gl_data.meta.StartStation),
              EndStationLE |->
                Round3(IF a < 0 THEN 0
                       ELSE gl_data.meta.StartStation + gl_data.meta.Length)]
    /\ Stations = <<>>
    /\ guide_lines = <<>>
    /\ gl_status = "idle"
    /\ IdleGeo
    /\ IdleData
    /\ InitDoc
    /\ InitCmd

NextGL == EditStations \/ CreateGuideLines

SpecGL == InitGL /\ [][NextGL]_vars

\* ---- the command: a saved document is opened, objects are selected, the
\* command is activated, the mouse moves over the view, ESCAPE ends it
InitDraft ==
    /\ geometry \in DraftGeometries
    /\ wire = DraftWire
    /\ curve_edges = Nothing
    /\ geo_result = Nothing
    /\ InitCmd
    /\ InitDoc
    /\ IdleData
    /\ IdleGL

NextCmd == OpenDocument \/ Select \/ IsActive \/ Activated \/ MouseMove \/ Escape

SpecCmd == InitDraft /\ [][NextCmd]_vars

----------------------------------------------------------------------------
(* Claims about alignment.py *)

\* the positions of the geometry entries that are not lines
CurveIdx == {k \in 1..Len(geometry) : geometry[k].Type # "Line"}

\* the edges whose start vertex is within tolerance of the curve's Start
StartsAt(c) ==
    {i \in 1..(Len(wire) - 1) : within_tolerance(c.Start, Edges(wire)[i][1])}

\* the edges from s on whose end vertex is within tolerance of the curve's End
EndsAt(c, s) ==
    {j \in s..(Len(wire) - 1) : within_tolerance(c.End, Edges(wire)[j][2])}

\* the run of edges s..e, keyed by edge name
Run(s, e) ==
    [key \in {EdgeName(n) : n \in s..e} |-> Edges(wire)[key[2]]]

\* C6: once build_curve_edge_dict has run, curve_edges has an entry for the
\* hash of every curve that is not a Line and for nothing else, and for a
\* curve with an edge starting at its Start and a following edge ending at
\* its End the entry is exactly the run of edges from the first such start
\* edge to the first such end edge, each keyed 'Edge<n>' by its 1-based
\* position in the wire.
C6_EdgeIndex ==
    curve_edges # Nothing =>
        /\ DOMAIN curve_edges[1] = {geometry[k].Hash : k \in CurveIdx}
        /\ \A k \in CurveIdx :
            LET c == geometry[k]
            IN  StartsAt(c) # {} /\ EndsAt(c, Min(StartsAt(c))) # {} =>
                    curve_edges[1][c.Hash] =
                        Run(Min(StartsAt(c)), Min(EndsAt(c, Min(StartsAt(c)))))

\* C6 witness: the index is built for a curve whose run has several edges
\* and ends before the wire's last edge, beside a Line that got no entry.
C6_Witness ==
    /\ curve_edges # Nothing
    /\ \E k \in CurveIdx :
        LET c == geometry[k]
        IN  /\ StartsAt(c) # {}
            /\ EndsAt(c, Min(StartsAt(c))) # {}
            /\ Min(EndsAt(c, Min(StartsAt(c)))) > Min(StartsAt(c))
            /\ Min(EndsAt(c, Min(StartsAt(c)))) < Len(wire) - 1
            /\ Cardinality(DOMAIN curve_edges[1][c.Hash]) >= 2
    /\ \E k \in 1..Len(geometry) :
        /\ geometry[k].Type = "Line"
        /\ geometry[k].Hash \notin DOMAIN curve_edges[1]

\* the entries of the geometry whose Hash is h
Matches(h) == {k \in 1..Len(geometry) : geometry[k].Hash = h}

\* C3: get_geometry(curve_hash) returns the entry whose Hash equals
\* curve_hash, and all of the geometry when no entry matches.
C3_GetGeometry ==
    geo_result # Nothing =>
        LET r == geo_result[1]
        IN  IF Matches(r.arg) # {}
            THEN /\ r.ret.kind = "entry"
                 /\ r.ret.value[1].Hash = r.arg
            ELSE /\ r.ret.kind = "list"
                 /\ r.ret.value = geometry

RECURSIVE Leaves(_, _)
\* the value of the object at a: its scalars, each with the path of keys
\* that leads to it
Leaves(h, a) ==
    UNION { IF h[a][k].ref
            THEN {<<(<<k>> \o l[1]), l[2]>> : l \in Leaves(h, h[a][k].v)}
            ELSE {<<(<<k>>), h[a][k].v>>} : k \in DOMAIN h[a] }

\* C4: get_data_copy returns a deep copy of the dataset: equal to it in
\* value, sharing no object with it, so that an assignment through the
\* returned value, at any depth, leaves the model's dataset unchanged;
\* get_data returns the model's own dataset, and an assignment through it
\* is an assignment to the model's dataset.
C4_DeepCopy ==
    [][ /\ data_op'.op = "get_data_copy" =>
            /\ Leaves(heap', data'[1]) = Leaves(heap', model_data)
            /\ Reach(heap', data'[1]) \cap Reach(heap', model_data) = {}
        /\ data_op'.op = "get_data" => data' = Some(model_data)
        /\ data_op'.op = "setitem" =>
            IF data = Some(model_data)
            THEN /\ data_op'.node \in Reach(heap', model_data)
                 /\ heap'[data_op'.node][data_op'.key] = Scalar(data_op'.val)
            ELSE Leaves(heap', model_data) = Leaves(heap, model_data)
      ]_vars

\* C4 witness: the caller has assigned to a geometry entry (depth three) of
\* a copy, and the copy now differs from the model's dataset.
C4_Witness ==
    /\ data_op.op = "setitem"
    /\ data # Nothing
    /\ data # Some(model_data)
    /\ data_op.key = "Hash"
    /\ Leaves(heap, data[1]) # Leaves(heap, model_data)

----------------------------------------------------------------------------
(* Claims about the document's factories *)

\* the objects of the document named 'PointGroups'
NamedPointGroups(objs) ==
    {i \in 1..Len(objs) : objs[i].Name = ObjName("PointGroups", 0)}

\* C2: after a call of point_groups.get the document holds exactly one
\* object named 'PointGroups' and the call returned it; a call made when
\* the document has such an object returns that object and adds nothing,
\* and an object, once in the document, stays as it is, so every call
\* returns the same object.
C2_PointGroupsGet ==
    [][ /\ doc_op'.op = "point_groups.get" =>
            /\ Cardinality(NamedPointGroups(objects')) = 1
            /\ ret' = getObject(objects', "PointGroups")
            /\ ret' # Nothing
            /\ NamedPointGroups(objects) # {} =>
                /\ objects' = objects
                /\ ret' = getObject(objects, "PointGroups")
        /\ SubSeq(objects', 1, Len(objects)) = objects
      ]_vars

\* C2 witness: point_groups.get has been called with an object named
\* 'PointGroups' in a document of several objects.
C2_Witness ==
    /\ doc_op.op = "point_groups.get"
    /\ ret = getObject(objects, "PointGroups")
    /\ ret # Nothing
    /\ ret[1].Proxy = ProxyOf("PointGroups", "Trails::PointGroups")
    /\ Len(objects) >= 3

\* C5: alignment.create called with empty or missing geometry prints
\* 'No curve geometry supplied', returns None and adds no object to the
\* document.
C5_CreateNoGeometry ==
    [][ (/\ doc_op'.op = "alignment.create"
         /\ doc_op'.geometry \in {"None", "empty"}) =>
            /\ objects' = objects
            /\ ret' = Nothing
            /\ out' = "No curve geometry supplied"
      ]_vars

\* C5 witness: alignment.create has been called with an empty geometry on a
\* document that already holds objects, and with no geometry at all.
C5_Witness ==
    /\ doc_op.op = "alignment.create"
    /\ doc_op.geometry = "empty"
    /\ ret = Nothing
    /\ out = "No curve geometry supplied"
    /\ Len(objects) >= 2

----------------------------------------------------------------------------
(* Claims about CreateGuideLines *)

\* the elements of a list
Elems(list) == {list[i] : i \in 1..Len(list)}

\* C7: every guide line CreateGuideLines creates lies at a station S with
\* FirstStation <= S <= LastStation; a candidate station outside these
\* limits gets no guide line.
C7_WithinLimits ==
    \A S \in Elems(guide_lines) :
        ui.StartStationLE <= S /\ S <= ui.EndStationLE

\* C7 witness: a run created guide lines and left out candidates under the
\* first station and candidates over the last one.
C7_Witness ==
    /\ gl_status = "done"
    /\ guide_lines # <<>>
    /\ \E S \in Elems(Stations) : S < ui.StartStationLE
    /\ \E S \in Elems(Stations) : S > ui.EndStationLE

\* the run got past the checks of the selected group and alignment
RunStarted ==
    gl_status # "idle" /\ ui.GLGroupCB >= 0 /\ ui.AlignmentCB >= 0

\* C8: a run of CreateGuideLines (on a selected group and alignment)
\* creates a guide line at the alignment's end station, start station +
\* length/1000 rounded to three decimals, whenever that station lies within
\* the station limits, whatever the increments are.
C8_EndStation ==
    (/\ RunStarted
     /\ ui.StartStationLE <= Round3(AlignmentEnd)
     /\ Round3(AlignmentEnd) <= ui.EndStationLE)
        => Round3(AlignmentEnd) \in Elems(guide_lines)

\* i is a multiple of n
IsMultiple(i, n) == IF n = 0 THEN i = 0 ELSE i % n = 0

\* the segments and whole-number stations C9 speaks of
SegmentCases ==
    {<<k, i>> \in (1..Len(gl_data.geometry)) \X (0..Round(AlignmentEnd)) :
        i \in StationRange(gl_data.geometry[k])}

\* the increment the claim names for a segment: the tangent increment for
\* a Line, the curve/spiral increment otherwise
ClaimedIncrement(k) ==
    IF gl_data.geometry[k].Type = "Line"
    THEN ui.TIncrementLE ELSE ui.CSIncrementLE

IsGeometryPoint(i) ==
    /\ ui.HorGeoPointsChB
    /\ i # 0
    /\ \E k \in 1..Len(gl_data.geometry) :
        gl_data.geometry[k].StartStation = i * Scale

----------------------------------------------------------------------------
(* Claims about DraftAlignmentCmd *)

\* the object is a horizontal alignment: its Proxy is an Alignment
IsHorizontalAlignment(o) ==
    o.Proxy # Nothing /\ o.Proxy[1].Class = "Alignment"

\* C1: IsActive returns True exactly when the command is not activated, a
\* document is open and the selection is not empty with a horizontal
\* alignment as its first object, and then that object is the command's
\* alignment.
C1_IsActive ==
    cmd_op = "IsActive" =>
        /\ active_result = "True" <=>
            (/\ ~is_activated
             /\ doc_open
             /\ selection # <<>>
             /\ IsHorizontalAlignment(ObjectNamed(objects, selection[1])))
        /\ active_result = "True" =>
            alignment = Some(ObjectNamed(objects, selection[1]))

\* the segment of the geometry that edge n of the wire is drawn from
SegmentOf(n) ==
    CHOOSE k \in 1..Len(geometry) :
        geometry[k].Start <= wire[n] /\ wire[n + 1] <= geometry[k].End

\* the hash of the curve owning what is under the cursor: the hash of the
\* curve or spiral an edge of the draft alignment is drawn from, None for
\* no object, another object, a vertex and an edge of a tangent
OwnerHash(info) ==
    IF info = Nothing THEN None
    ELSE IF info[1].Object # alignment_draft[1] THEN None
    ELSE IF info[1].Component[1] # "Edge" THEN None
    ELSE IF geometry[SegmentOf(info[1].Component[2])].Type = "Line" THEN None
    ELSE geometry[SegmentOf(info[1].Component[2])].Hash

\* C10: after a mouse move handled by action, self.curve_hash is the hash
\* of the curve owning the edge of the draft alignment under the cursor,
\* and None when the cursor is over no curve edge of the draft alignment.
C10_CurveHash ==
    cmd_op = "SoLocation2Event" => curve_hash = OwnerHash(cursor)

====
